---- MODULE Spec2Model ----
(***************************************************************************)
(* Model of the notification pipeline of distributed-notification-system.  *)
(*                                                                         *)
(*   SpecAdmit   - the admission path of the API gateway                   *)
(*                 (api_gateway/main.py send_notification) over the shared *)
(*                 Redis store and the RabbitMQ exchange, run by several   *)
(*                 gateway processes at once.                              *)
(*   SpecRateLimit - RedisClient.check_rate_limit (shared/utils/           *)
(*                 redis_client.py) called directly by several processes.  *)
(*   SpecBreaker - the CircuitBreaker class (shared/utils/                 *)
(*                 circuit_breaker.py) around a synchronous operation that *)
(*                 may raise, with a clock.                                *)
(*   SpecSend    - send_email_smtp: the breaker around the retry wrapper   *)
(*                 (shared/utils/retry.py) around the SMTP function.       *)
(*   SpecWorker  - the consumers of email.queue: the consume callbacks of  *)
(*                 email_service/main.py and email_service/worker.py.      *)
(*   SpecBreakers - the breakers of the gateways, of send_email_smtp and   *)
(*                 of send_push_onesignal, called in any order.            *)
(*   SpecShutdown - the email worker process (email_service/worker.py      *)
(*                 main) with its signal handler.                          *)
(*   SpecProcess - process_email_notification of email_service/main.py as  *)
(*                 written, entered with a payload that has the attributes *)
(*                 it reads, and the acknowledgement of its callback.      *)
(*   SpecThreads - one CircuitBreaker called by several threads whose      *)
(*                 calls overlap.                                          *)
(*   SpecRecovery - SpecProcess with a clock, a provider that stops        *)
(*                 failing, messages that keep arriving, and fairness of   *)
(*                 the clock, the broker and the consumer thread.          *)
(*                                                                         *)
(* Variables whose names start with "h_" are history variables: they       *)
(* record what happened and are never read by the modelled code.           *)
(***************************************************************************)
EXTENDS Integers, Sequences, FiniteSets, TLC

----------------------------------------------------------------------------
(* Bounds of the model *)

NumInstances == 2      \* gateway processes running send_notification
NumRequests == 2       \* distinct request_id values a client may submit
NumUsers == 1          \* distinct user_id values
MaxCalls == 3          \* admission calls started in one behaviour of SpecAdmit
MaxRateCalls == 5      \* check_rate_limit calls in one behaviour of SpecRateLimit
MaxTime == 6           \* the clock's last value in SpecBreaker
MaxDuration == 1       \* longest time a guarded call takes
MaxCbCalls == 6        \* calls through one breaker in SpecBreaker
MaxSends == 4          \* send_email_smtp calls in one behaviour of SpecSend
MaxElapse == 2         \* pauses between sends in one behaviour of SpecSend
MaxPublished == 3      \* admitted messages in one behaviour of SpecWorker
MaxRaw == 1            \* bodies that are not messages, published to email.queue
MaxDeliveries == 2     \* deliveries of one message to the consumers
MaxProcessed == 2      \* admitted messages in one behaviour of SpecProcess
RecoveryHorizon == 16  \* the clock's last value in SpecRecovery
RecoveryMessages == 1  \* messages in the email service at once in SpecRecovery

(* Configuration values, chosen small (settings.py:196 defaults to 100,    *)
(* circuit_breaker defaults to 5 and 60).                                  *)
RATE_LIMIT_PER_USER == 2
failure_threshold == 2
recovery_timeout == 2

(* retry_with_backoff(max_attempts=3, backoff_base=2), backoff_factor=1 *)
max_attempts == 3
backoff_base == 2
backoff_factor == 1

Instances == 1..NumInstances
RequestIds == 1..NumRequests
UserIds == 1..NumUsers

(* Notification ids are fresh uuid4 values; they are drawn from a range    *)
(* disjoint from the request ids, as both are used in status keys.         *)
NotificationIdBase == 100

NoTime == -1           \* last_failure_time = None

----------------------------------------------------------------------------
VARIABLES
  marker,      \* Redis: request ids r with key notification:processed:r
  rate,        \* Redis: rate-limit key -> [present, count, ttl]
  statusRec,   \* Redis: notification:status:k -> status, a function on the keys present
  queues,      \* RabbitMQ: queue name -> sequence of messages
  breaker,     \* breaker name -> [state, failure_count, last_failure_time]
  now,         \* time.time()
  call,        \* gateway instance -> frame of its send_notification call
  uuidCount,   \* uuid4 values drawn so far
  h_calls,     \* admission calls started so far
  h_req,       \* per request id: history of the admission of that id
  h_user,      \* per rate-limit key: history of its windows
  h_inst,      \* per gateway instance: history of its calls
  h_cb,        \* per breaker: history of calls through it
  send,        \* frame of the worker's send_email_smtp call
  consumer,    \* consumer -> frame of its consume callback
  h_send,      \* history of the send_email_smtp calls
  h_work       \* per request id: history of its deliveries to the workers

vars == <<marker, rate, statusRec, queues, breaker, now, call, uuidCount,
          h_calls, h_req, h_user, h_inst, h_cb, send, consumer, h_send, h_work>>

deliveryVars == <<send, consumer, h_send, h_work>>

storeVars == <<marker, rate, statusRec>>
histVars == <<h_calls, h_req, h_user, h_inst, h_cb>>

----------------------------------------------------------------------------
(* The request payload.  A request id names one logical request, so the    *)
(* user and the channel are functions of it.                               *)

NotificationType == {"email", "push"}

UserOf(r) == ((r - 1) % NumUsers) + 1

TypeOf(r) == IF r % 2 = 1 THEN "email" ELSE "push"

(* int(uuid.UUID(payload.user_id).int % (2**31)): the 128-bit user id is   *)
(* folded onto the rate-limit key space.  The model's user ids are small   *)
(* numbers, and RateKeyModulus stands for 2**31 on that scale.             *)
RateKeyModulus == 4

RateLimitUserId(u) == u % RateKeyModulus

RateKeys == {RateLimitUserId(u) : u \in UserIds}

QueueNames == {"email.queue", "push.queue", "failed.queue"}

(* Mutant: routing key failed is bound to a queue that has a consumer.     *)
Binding_failed_consumed(routing_key) ==
  CASE routing_key = "email" -> "email.queue"
    [] routing_key = "push" -> "push.queue"
    [] routing_key = "failed" -> "email.queue"

(* queue_bind: routing key -> queue *)
Binding(routing_key) ==
  CASE routing_key = "email" -> "email.queue"
    [] routing_key = "push" -> "push.queue"
    [] routing_key = "failed" -> "failed.queue"

----------------------------------------------------------------------------
(* CircuitBreaker *)

CircuitState == {"closed", "open", "half_open"}

(* One breaker per decorated function and process: the gateway processes  *)
(* each own a "send_notification" breaker, the email worker owns           *)
(* "send_smtp_email".                                                      *)
GatewayBreaker(i) == <<"send_notification", i>>

SmtpBreaker == <<"send_smtp_email", 0>>

(* push_service/main.py line 47 *)
PushBreaker == <<"send_onesignal_push", 0>>

BreakerIds == {GatewayBreaker(i) : i \in Instances} \cup {SmtpBreaker, PushBreaker}

(* CircuitBreaker.__init__ *)
NewBreaker == [state |-> "closed", failure_count |-> 0, last_failure_time |-> NoTime]

(* Mutant: an open breaker never lets a probe through.                    *)
should_attempt_reset_never(cb, t) == FALSE

(* Mutant: the reset is attempted only after more than recovery_timeout.   *)
should_attempt_reset_late(cb, t) ==
  /\ cb.last_failure_time # NoTime
  /\ t - cb.last_failure_time > recovery_timeout

should_attempt_reset(cb, t) ==
  /\ cb.last_failure_time # NoTime
  /\ t - cb.last_failure_time >= recovery_timeout

(* Mutant: an open breaker lets every call through.                       *)
call_rejected_never(cb, t) == FALSE

(* CircuitBreaker.call, lines 46-53: TRUE when the call is rejected with   *)
(* CircuitBreakerOpenException before the guarded function is invoked.     *)
call_rejected(cb, t) == cb.state = "open" /\ ~should_attempt_reset(cb, t)

(* Mutant: the probation starts with a cleared failure count.             *)
call_enter_resets(cb, t) ==
  IF cb.state = "open" /\ should_attempt_reset(cb, t)
  THEN [cb EXCEPT !.state = "half_open", !.failure_count = 0]
  ELSE cb

(* CircuitBreaker.call, lines 46-49: the breaker as the guarded function   *)
(* is entered.                                                             *)
call_enter(cb, t) ==
  IF cb.state = "open" /\ should_attempt_reset(cb, t)
  THEN [cb EXCEPT !.state = "half_open"]
  ELSE cb

(* Mutant: a successful probe closes the breaker and keeps the count.      *)
on_success_keeps_count(cb) ==
  IF cb.state = "half_open"
  THEN [cb EXCEPT !.state = "closed"]
  ELSE cb

(* Mutant: every success puts the breaker on probation.                    *)
on_success_always_probes(cb) == [cb EXCEPT !.state = "half_open"]

(* CircuitBreaker._on_success *)
on_success(cb) ==
  IF cb.state = "half_open"
  THEN [cb EXCEPT !.state = "closed", !.failure_count = 0]
  ELSE cb

(* Mutant: a failed probe is counted and its time is not recorded.         *)
on_failure_stale_time(cb, t) ==
  LET counted == [cb EXCEPT !.failure_count = @ + 1,
                            !.last_failure_time =
                               IF cb.state = "half_open" THEN @ ELSE t]
  IN IF counted.failure_count >= failure_threshold
     THEN [counted EXCEPT !.state = "open"]
     ELSE counted

(* Mutant: every attempt of a retried call is counted as a failure.        *)
on_failure_per_attempt(cb, t) ==
  LET counted == [cb EXCEPT !.failure_count = @ + max_attempts, !.last_failure_time = t]
  IN IF counted.failure_count >= failure_threshold
     THEN [counted EXCEPT !.state = "open"]
     ELSE counted

on_failure(cb, t) ==
  LET counted == [cb EXCEPT !.failure_count = @ + 1, !.last_failure_time = t]
  IN IF counted.failure_count >= failure_threshold
     THEN [counted EXCEPT !.state = "open"]
     ELSE counted

----------------------------------------------------------------------------
(* RedisClient *)

NoKey == [present |-> FALSE, count |-> 0, ttl |-> FALSE]

(* Mutant: the idempotency check never finds the marker.                  *)
is_notification_processed_blind(ok, r) == FALSE

(* RedisClient.get on notification:processed:r; ok = the store answered.  *)
(* A store error is logged and None is returned.                          *)
is_notification_processed(ok, r) == ok /\ r \in marker

(* Mutant: the marker is never written.                                   *)
mark_notification_processed_lost(ok, r) == marker

(* RedisClient.set with expire=3600; a store error is logged and ignored. *)
mark_notification_processed(ok, r) == IF ok THEN marker \cup {r} ELSE marker

(* check_rate_limit, line 85: setex(key, window, 1) *)
rate_setex(k) == [rate EXCEPT ![k] = [present |-> TRUE, count |-> 1, ttl |-> TRUE]]

(* check_rate_limit, line 94: incr(key).  INCR on a missing key creates   *)
(* it with value 1 and no expiry.                                         *)
rate_incr(k) ==
  IF rate[k].present
  THEN [rate EXCEPT ![k].count = @ + 1]
  ELSE [rate EXCEPT ![k] = [present |-> TRUE, count |-> 1, ttl |-> FALSE]]

(* Mutant: the limit test is off by one.                                  *)
limit_reached_late(current_count) == current_count > RATE_LIMIT_PER_USER

(* check_rate_limit, line 90 *)
limit_reached(current_count) == current_count >= RATE_LIMIT_PER_USER

(* Mutant: a store error rejects the request.                             *)
fail_closed == [is_allowed |-> FALSE, remaining |-> 0]

(* check_rate_limit, lines 96-99: what is returned when the store raises  *)
fail_open == [is_allowed |-> TRUE, remaining |-> RATE_LIMIT_PER_USER]

(* Mutant: the status record is not written.                              *)
status_set_dropped(ok, k, status) == statusRec

(* RedisClient.set on notification:status:k with expire=86400 *)
status_set(ok, k, status) ==
  IF ok
  THEN [x \in DOMAIN statusRec \cup {k} |-> IF x = k THEN status ELSE statusRec[x]]
  ELSE statusRec

----------------------------------------------------------------------------
(* RabbitMQClient *)

QueueMessage(r, nid) ==
  [notification_id |-> nid, request_id |-> r, user_id |-> UserOf(r),
   notification_type |-> TypeOf(r), message_id |-> r]

(* Mutant: a failed basic_publish is logged and not raised again.         *)
publish_raises_swallowed(ok) == FALSE

(* publish_message, lines 97-99: a failed basic_publish is logged and     *)
(* raised again to the caller.                                             *)
publish_raises(ok) == ~ok

(* basic_publish through the direct exchange *)
publish_message(routing_key, message) ==
  [queues EXCEPT ![Binding(routing_key)] = Append(@, message)]

----------------------------------------------------------------------------
(* send_notification *)

Results == {"none", "already_processed", "rate_limit_exceeded", "pending",
            "error_500", "unhandled_500", "service_unavailable_503", "returned"}

(* ret is the caller check_rate_limit returns to: send_notification, or   *)
(* a direct caller of RedisClient.check_rate_limit.                        *)
IdleFrame ==
  [pc |-> "idle", ret |-> "send_notification", request_id |-> 0, user_id |-> 0,
   notification_id |-> 0, is_allowed |-> FALSE, remaining |-> 0, result |-> "none"]

InFlight(i) == call[i].pc \notin {"idle", "done"}

(* The call returns or raises: its locals are gone, the response stays.   *)
Finish(i, res) ==
  [call EXCEPT ![i] = [IdleFrame EXCEPT !.pc = "done",
                                        !.ret = call[i].ret,
                                        !.request_id = call[i].request_id,
                                        !.user_id = call[i].user_id,
                                        !.result = res]]

Goto(i, label) == [call EXCEPT ![i].pc = label]

(* check_rate_limit returns (allowed, rem).  send_notification raises     *)
(* HTTPException(429) at lines 142-150 when not allowed and goes on to     *)
(* line 152 otherwise.                                                     *)
RateLimitReturns(i, allowed, rem) ==
  [call EXCEPT ![i].pc = IF allowed /\ call[i].ret = "send_notification"
                         THEN "status" ELSE "done",
               ![i].is_allowed = allowed,
               ![i].remaining = rem,
               ![i].result = CASE call[i].ret # "send_notification" -> "returned"
                               [] allowed -> @
                               [] OTHER -> "rate_limit_exceeded"]

(* fault names the store operation that failed in the latest step of the  *)
(* instance's call, "none" when that step's store operation succeeded.    *)
NoteFault(h, i, step) == [h EXCEPT ![i].fault = step]

NoteOutcome(h, i, failed) ==
  [h EXCEPT ![i].failed_calls = IF failed THEN @ + 1 ELSE 0]

(* wrapper() of @circuit_breaker around the coroutine function            *)
(* send_notification: breaker.call(func) invokes func, which only builds  *)
(* the coroutine and cannot raise, so every admitted call is recorded as  *)
(* a success before the body has run.  A rejection is raised outside the  *)
(* body's try block.                                                       *)
Begin(i, r) ==
  /\ ~InFlight(i)
  /\ h_calls < MaxCalls
  /\ h_calls' = h_calls + 1
  /\ LET cb == breaker[GatewayBreaker(i)]
         k == RateLimitUserId(UserOf(r))
         frame == [IdleFrame EXCEPT !.request_id = r, !.user_id = UserOf(r)]
     IN IF call_rejected(cb, now)
        THEN /\ call' = [call EXCEPT ![i] = [frame EXCEPT !.pc = "done", !.result = "unhandled_500"]]
             /\ h_inst' = NoteFault(NoteOutcome(h_inst, i, TRUE), i, "none")
             /\ UNCHANGED <<breaker, h_req, h_user>>
        ELSE /\ call' = [call EXCEPT ![i] = [frame EXCEPT !.pc = "check"]]
             /\ breaker' = [breaker EXCEPT ![GatewayBreaker(i)] = on_success(call_enter(cb, now))]
             /\ h_inst' = [NoteFault(h_inst, i, "none") EXCEPT
                             ![i].after_ok = h_req[r].succeeded > 0]
             /\ h_req' = [h_req EXCEPT ![r].overlapped =
                            @ \/ \E j \in Instances : InFlight(j) /\ call[j].request_id = r]
             /\ h_user' = [h_user EXCEPT ![k].overlapped =
                            @ \/ \E j \in Instances :
                                   /\ InFlight(j)
                                   /\ RateLimitUserId(call[j].user_id) = k]
  /\ UNCHANGED deliveryVars
  /\ UNCHANGED <<storeVars, queues, now, uuidCount, h_cb>>

(* lines 124-133 *)
CheckIdempotency(i) ==
  /\ call[i].pc = "check"
  /\ \E ok \in BOOLEAN :
       LET r == call[i].request_id
       IN IF is_notification_processed(ok, r)
          THEN /\ call' = Finish(i, "already_processed")
               /\ h_inst' = NoteFault(NoteOutcome(h_inst, i, FALSE), i, "none")
               /\ UNCHANGED h_req
          ELSE /\ call' = Goto(i, "rl_get")
               /\ h_req' = [h_req EXCEPT ![r].faulted = @ \/ (r \in marker /\ ~ok)]
               /\ h_inst' = NoteFault(h_inst, i, IF r \in marker /\ ~ok THEN "read" ELSE "none")
  /\ UNCHANGED deliveryVars
  /\ UNCHANGED <<storeVars, queues, breaker, now, uuidCount, h_calls, h_user, h_cb>>

(* check_rate_limit line 81, and lines 83, 90-91 and 96-99 on its result;  *)
(* a rejection raises HTTPException(429) at lines 142-150.                 *)
RateLimitGet(i) ==
  /\ call[i].pc = "rl_get"
  /\ \E ok \in BOOLEAN :
       LET k == RateLimitUserId(call[i].user_id)
       IN CASE ~ok ->
                 /\ call' = RateLimitReturns(i, fail_open.is_allowed, fail_open.remaining)
                 /\ h_user' = [h_user EXCEPT ![k].faulted = TRUE]
                 /\ h_inst' = NoteFault(h_inst, i, "get")
            [] ok /\ ~rate[k].present ->
                 /\ call' = Goto(i, "rl_setex")
                 /\ h_inst' = NoteFault(h_inst, i, "none")
                 /\ UNCHANGED h_user
            [] ok /\ rate[k].present /\ limit_reached(rate[k].count) ->
                 /\ call' = RateLimitReturns(i, FALSE, 0)
                 /\ h_user' = [h_user EXCEPT ![k].rejected = TRUE]
                 /\ h_inst' = NoteFault(h_inst, i, "none")
            [] ok /\ rate[k].present /\ ~limit_reached(rate[k].count) ->
                 /\ call' = Goto(i, "rl_incr")
                 /\ h_inst' = NoteFault(h_inst, i, "none")
                 /\ UNCHANGED h_user
  /\ UNCHANGED deliveryVars
  /\ UNCHANGED <<storeVars, queues, breaker, now, uuidCount, h_calls, h_req, h_cb>>

(* check_rate_limit lines 85-86 and 96-99 *)
RateLimitSetex(i) ==
  /\ call[i].pc = "rl_setex"
  /\ \E ok \in BOOLEAN :
       LET k == RateLimitUserId(call[i].user_id)
       IN IF ok
          THEN /\ rate' = rate_setex(k)
               /\ call' = RateLimitReturns(i, TRUE, RATE_LIMIT_PER_USER - 1)
               /\ h_user' = [h_user EXCEPT ![k].allowed = @ + 1]
               /\ h_inst' = NoteFault(h_inst, i, "none")
          ELSE /\ call' = RateLimitReturns(i, fail_open.is_allowed, fail_open.remaining)
               /\ h_user' = [h_user EXCEPT ![k].faulted = TRUE]
               /\ h_inst' = NoteFault(h_inst, i, "setex")
               /\ UNCHANGED rate
  /\ UNCHANGED deliveryVars
  /\ UNCHANGED <<marker, statusRec, queues, breaker, now, uuidCount, h_calls, h_req, h_cb>>

(* check_rate_limit lines 94-95 and 96-99 *)
RateLimitIncr(i) ==
  /\ call[i].pc = "rl_incr"
  /\ \E ok \in BOOLEAN :
       LET k == RateLimitUserId(call[i].user_id)
       IN IF ok
          THEN /\ rate' = rate_incr(k)
               /\ call' = RateLimitReturns(i, TRUE, RATE_LIMIT_PER_USER - rate'[k].count)
               /\ h_user' = [h_user EXCEPT ![k].allowed = @ + 1]
               /\ h_inst' = NoteFault(h_inst, i, "none")
          ELSE /\ call' = RateLimitReturns(i, fail_open.is_allowed, fail_open.remaining)
               /\ h_user' = [h_user EXCEPT ![k].faulted = TRUE]
               /\ h_inst' = NoteFault(h_inst, i, "incr")
               /\ UNCHANGED rate
  /\ UNCHANGED deliveryVars
  /\ UNCHANGED <<marker, statusRec, queues, breaker, now, uuidCount, h_calls, h_req, h_cb>>

(* lines 152-166: a fresh notification_id and its status record; the      *)
(* result of redis_client.set is not looked at.                            *)
StoreStatus(i) ==
  /\ call[i].pc = "status"
  /\ \E ok \in BOOLEAN :
       LET nid == NotificationIdBase + uuidCount + 1
       IN /\ uuidCount' = uuidCount + 1
          /\ statusRec' = status_set(ok, nid, "pending")
          /\ call' = [call EXCEPT ![i].pc = "publish", ![i].notification_id = nid]
          /\ h_inst' = NoteFault(h_inst, i, IF ok THEN "none" ELSE "status")
  /\ UNCHANGED deliveryVars
  /\ UNCHANGED <<marker, rate, queues, breaker, now, h_calls, h_req, h_user, h_cb>>

(* lines 168-186, and 212-217 when publish_message raises *)
Publish(i) ==
  /\ call[i].pc = "publish"
  /\ \E ok \in BOOLEAN :
       LET r == call[i].request_id
       IN /\ IF ok
             THEN /\ queues' = publish_message(TypeOf(r), QueueMessage(r, call[i].notification_id))
                  /\ h_req' = [h_req EXCEPT ![r].published = @ + 1,
                                            ![r].published_after_failure = @ \/ h_req[r].publish_failed]
             ELSE /\ h_req' = [h_req EXCEPT ![r].publish_failed = TRUE]
                  /\ UNCHANGED queues
          /\ IF publish_raises(ok)
             THEN /\ call' = Finish(i, "error_500")
                  /\ h_inst' = NoteFault(NoteOutcome(h_inst, i, TRUE), i, "none")
             ELSE /\ call' = Goto(i, "mark")
                  /\ h_inst' = NoteFault(h_inst, i, "none")
  /\ UNCHANGED deliveryVars
  /\ UNCHANGED <<storeVars, breaker, now, uuidCount, h_calls, h_user, h_cb>>

(* lines 188-205: the marker, then the success response; the result of    *)
(* the store write is not looked at.                                       *)
MarkProcessed(i) ==
  /\ call[i].pc = "mark"
  /\ \E ok \in BOOLEAN :
       LET r == call[i].request_id
       IN /\ marker' = mark_notification_processed(ok, r)
          /\ call' = Finish(i, "pending")
          /\ h_req' = [h_req EXCEPT ![r].succeeded = @ + 1,
                                    ![r].faulted = @ \/ ~ok]
          /\ h_inst' = NoteOutcome(h_inst, i, FALSE)
  /\ UNCHANGED deliveryVars
  /\ UNCHANGED <<rate, statusRec, queues, breaker, now, uuidCount, h_calls, h_user, h_cb>>

----------------------------------------------------------------------------
(* Redis key expiry.  Time is not measured on the admission path: a key   *)
(* written with a TTL may expire at any later moment.                      *)

ExpireMarker(r) ==
  /\ r \in marker
  /\ marker' = marker \ {r}
  /\ h_req' = [h_req EXCEPT ![r].faulted = TRUE]
  /\ UNCHANGED deliveryVars
  /\ UNCHANGED <<rate, statusRec, queues, breaker, now, call, uuidCount,
                 h_calls, h_user, h_inst, h_cb>>

ExpireRateLimit(k) ==
  /\ rate[k].present
  /\ rate[k].ttl
  /\ rate' = [rate EXCEPT ![k] = NoKey]
  /\ h_user' = [h_user EXCEPT
                  ![k].allowed = 0,
                  ![k].rejected = FALSE,
                  ![k].full_windows = IF h_user[k].rejected THEN 1 ELSE @]
  /\ UNCHANGED deliveryVars
  /\ UNCHANGED <<marker, statusRec, queues, breaker, now, call, uuidCount,
                 h_calls, h_req, h_inst, h_cb>>

----------------------------------------------------------------------------
(* retry_with_backoff and the decorated send_email_smtp                    *)
(*   @circuit_breaker(failure_threshold=5, recovery_timeout=60, ...)       *)
(*   @retry_with_backoff(max_attempts=3, backoff_base=2)                   *)
(* The breaker is the outer decorator: CircuitBreaker.call invokes the     *)
(* retry wrapper, which invokes the SMTP function.                         *)

(* Mutant: the exponent counts from 0.                                     *)
exponential_backoff_from_zero(attempt) == backoff_factor * (backoff_base ^ (attempt - 1))

(* exponential_backoff(attempt, base, factor) *)
exponential_backoff(attempt) == backoff_factor * (backoff_base ^ attempt)

(* Mutant: the loop runs once more.                                        *)
in_range_one_more(attempt) == attempt >= 0 /\ attempt <= max_attempts

(* for attempt in range(max_attempts) *)
in_range(attempt) == attempt >= 0 /\ attempt < max_attempts

(* retry.py line 62: a failed attempt is followed by a sleep *)
sleeps_before_retry(attempt) == attempt < max_attempts - 1

----------------------------------------------------------------------------
(* Channel workers of email.queue: the consume callback of                 *)
(* email_service/main.py and the one of email_service/worker.py.           *)

Consumers == {"email_service", "email_worker"}

(* A body on the queue that json.loads rejects. *)
NotJson ==
  [notification_id |-> 0, request_id |-> 0, user_id |-> 0,
   notification_type |-> "not json", message_id |-> 0]

json_loads_ok(body) == body # NotJson

(* NotificationPayload of the parsed body: the fields the model validates. *)
payload_valid(data) == data.notification_type \in NotificationType

(* Fields of NotificationPayload; reading any other attribute of a payload *)
(* raises AttributeError.                                                  *)
PayloadFields ==
  {"notification_type", "user_id", "template_code", "variables", "request_id",
   "priority", "metadata"}

has_field(f) == f \in PayloadFields

(* email_service/main.py callback, lines 252-261: TRUE when the callback   *)
(* raises before it calls process_email_notification.                      *)
callback_raises(body) ==
  \/ ~json_loads_ok(body)
  \/ ~payload_valid(body)
  \/ ~has_field("correlation_id")

(* Deliveries are told apart by the notification_id of the message; 0 is   *)
(* the body that is not a message.  A message that a worker published from *)
(* its NotificationPayload has no notification_id (written 0) and is told  *)
(* apart by its request_id.                                                *)
CopyIds == 1..(2 * MaxPublished - 1)

WorkIds == {0} \cup CopyIds \cup {NotificationIdBase + k : k \in 1..MaxPublished}

WorkId(body) ==
  IF body.notification_id # 0 THEN body.notification_id ELSE body.request_id

(* buffer: messages the broker has delivered to the consumer's channel     *)
(* while its callback was running.  signalled and taken_after_signal note  *)
(* a termination signal and the deliveries taken after it.                 *)
IdleConsumer ==
  [pc |-> "idle", body |-> NotJson, buffer |-> <<>>, signalled |-> FALSE,
   taken_after_signal |-> 0]

(* disabled: the user of the message has the email channel disabled.       *)
(* requeues and drops count basic_nack with requeue=True and False;        *)
(* republished and dead_lettered count the publishes of the worker to the  *)
(* channel queue and to failed.queue on behalf of the message;             *)
(* store_fault tells that the store raised during a status update.         *)
NoWork ==
  [published |-> 0, deliveries |-> 0, provider_calls |-> 0, exhausted |-> 0,
   acks |-> 0, requeues |-> 0, drops |-> 0, disabled |-> FALSE,
   republished |-> 0, dead_lettered |-> 0, skipped |-> 0, sent |-> 0,
   render_failed |-> 0, circuit_open |-> 0, store_fault |-> FALSE]

(* What the SMTP function raises *)
SendErrors == {"SMTPException", "TimeoutError"}

SendOutcomes == {"ok"} \cup SendErrors

SendResults == {"none", "returned", "CircuitBreakerOpenException",
                "MaxRetriesExceededException"}

(* Frame of one send_email_smtp call: pc "called" is the entry of          *)
(* CircuitBreaker.call, "attempt" the body of the retry loop.  outcomes    *)
(* and sleeps list what the attempts of this call did and the delays       *)
(* slept between them; cause is the __cause__ of the raised exception.     *)
(* message is the text of the raised MaxRetriesExceededException.          *)
NoMessage == [attempts |-> 0, last_error |-> "none"]

IdleSend ==
  [pc |-> "idle", attempt |-> 0, last_exception |-> "none",
   outcomes |-> <<>>, sleeps |-> <<>>, result |-> "none", cause |-> "none",
   message |-> NoMessage]

(* Mutant: the text does not name the last error.                          *)
max_retries_message_generic(last_exception) ==
  [attempts |-> max_attempts, last_error |-> "none"]

(* retry.py lines 81-83: "Failed after {max_attempts} attempts. Last       *)
(* error: {str(last_exception)}"                                           *)
max_retries_message(last_exception) ==
  [attempts |-> max_attempts, last_error |-> last_exception]

Init ==
  /\ marker = {}
  /\ rate = [k \in RateKeys |-> NoKey]
  /\ statusRec = <<>>
  /\ queues = [q \in QueueNames |-> <<>>]
  /\ breaker = [b \in BreakerIds |-> NewBreaker]
  /\ now = 0
  /\ call = [i \in Instances |-> IdleFrame]
  /\ uuidCount = 0
  /\ h_calls = 0
  /\ h_req = [r \in RequestIds |->
               [published |-> 0, succeeded |-> 0, faulted |-> FALSE,
                overlapped |-> FALSE, publish_failed |-> FALSE,
                published_after_failure |-> FALSE]]
  /\ h_user = [k \in RateKeys |->
                [allowed |-> 0, rejected |-> FALSE, full_windows |-> 0,
                 faulted |-> FALSE, overlapped |-> FALSE]]
  /\ h_inst = [i \in Instances |->
                [failed_calls |-> 0, after_ok |-> FALSE, fault |-> "none"]]
  /\ h_cb = [b \in BreakerIds |->
              [calls |-> 0, last |-> "none", consecutive_failures |-> 0,
               opened_from |-> "none", entered |-> "none", invoked |-> 0,
               failures_since_probe |-> 0, raised_at |-> NoTime,
               passed_in_half_open |-> 0]]
  /\ send = IdleSend
  /\ h_send = [calls |-> 0, elapses |-> 0, entered |-> "none", count_at_entry |-> 0,
               started_at |-> 0, attempt_end |-> 0]
  /\ consumer = [c \in Consumers |-> IdleConsumer]
  /\ h_work = [r \in WorkIds |-> NoWork]

NextAdmit ==
  \/ \E i \in Instances, r \in RequestIds : Begin(i, r)
  \/ \E i \in Instances : CheckIdempotency(i)
  \/ \E i \in Instances : RateLimitGet(i)
  \/ \E i \in Instances : RateLimitSetex(i)
  \/ \E i \in Instances : RateLimitIncr(i)
  \/ \E i \in Instances : StoreStatus(i)
  \/ \E i \in Instances : Publish(i)
  \/ \E i \in Instances : MarkProcessed(i)
  \/ \E r \in RequestIds : ExpireMarker(r)
  \/ \E k \in RateKeys : ExpireRateLimit(k)

SpecAdmit == Init /\ [][NextAdmit]_vars

----------------------------------------------------------------------------
(* RedisClient.check_rate_limit called on its own, by several processes.   *)

CheckRateLimit(i, u) ==
  /\ ~InFlight(i)
  /\ h_calls < MaxRateCalls
  /\ h_calls' = h_calls + 1
  /\ LET k == RateLimitUserId(u)
     IN /\ call' = [call EXCEPT ![i] = [IdleFrame EXCEPT !.pc = "rl_get",
                                                          !.ret = "caller",
                                                          !.user_id = u]]
        /\ h_inst' = NoteFault(h_inst, i, "none")
        /\ h_user' = [h_user EXCEPT ![k].overlapped =
                       @ \/ \E j \in Instances :
                              InFlight(j) /\ RateLimitUserId(call[j].user_id) = k]
  /\ UNCHANGED deliveryVars
  /\ UNCHANGED <<storeVars, queues, breaker, now, uuidCount, h_req, h_cb>>

NextRateLimit ==
  \/ \E i \in Instances, u \in UserIds : CheckRateLimit(i, u)
  \/ \E i \in Instances : RateLimitGet(i)
  \/ \E i \in Instances : RateLimitSetex(i)
  \/ \E i \in Instances : RateLimitIncr(i)
  \/ \E k \in RateKeys : ExpireRateLimit(k)

SpecRateLimit == Init /\ [][NextRateLimit]_vars

----------------------------------------------------------------------------
(* CircuitBreaker.call around a synchronous function that returns (ok) or  *)
(* raises, and takes d seconds.  A rejected call does not invoke it.       *)

(* Mutant: the state of a breaker is shared by all breakers.                *)
record_on_shared(b, cb) == [x \in BreakerIds |-> cb]

(* The decorator creates one CircuitBreaker for each function it           *)
(* decorates, and state, failure_count and last_failure_time are           *)
(* attributes of that instance: a call writes to its own breaker.          *)
record_on(b, cb) == [breaker EXCEPT ![b] = cb]

BreakerCall(b, ok, d) ==
  /\ h_cb[b].calls < MaxCbCalls
  /\ now + d <= MaxTime
  /\ LET cb == breaker[b]
         entered == call_enter(cb, now)
     IN IF call_rejected(cb, now)
        THEN /\ d = 0
             /\ h_cb' = [h_cb EXCEPT ![b].calls = @ + 1, ![b].last = "rejected",
                                     ![b].entered = "none"]
             /\ UNCHANGED <<breaker, now>>
        ELSE /\ now' = now + d
             /\ breaker' = record_on(b, IF ok THEN on_success(entered)
                                              ELSE on_failure(entered, now'))
             /\ h_cb' = [h_cb EXCEPT
                           ![b].calls = @ + 1,
                           ![b].last = IF ok THEN "returned" ELSE "raised",
                           ![b].consecutive_failures = IF ok THEN 0 ELSE @ + 1,
                           ![b].opened_from =
                              IF breaker'[b].state = "open" THEN entered.state ELSE "none",
                           ![b].entered = entered.state,
                           ![b].invoked = @ + 1,
                           ![b].failures_since_probe =
                              IF ok THEN (IF entered.state = "half_open" THEN 0 ELSE @)
                              ELSE @ + 1,
                           ![b].raised_at = IF ok THEN @ ELSE now']
  /\ UNCHANGED deliveryVars
  /\ UNCHANGED <<storeVars, queues, call, uuidCount, h_calls, h_req, h_user, h_inst>>

Tick ==
  /\ now < MaxTime
  /\ now' = now + 1
  /\ UNCHANGED deliveryVars
  /\ UNCHANGED <<storeVars, queues, breaker, call, uuidCount, histVars>>

NextBreaker ==
  \/ \E ok \in BOOLEAN, d \in 0..MaxDuration : BreakerCall(SmtpBreaker, ok, d)
  \/ Tick

SpecBreaker == Init /\ [][NextBreaker]_vars

(* The breakers of the gateway processes, of send_email_smtp and of        *)
(* send_push_onesignal, called in any order.  The function under a         *)
(* gateway breaker is a coroutine function: calling it returns a coroutine *)
(* and raises nothing.                                                     *)
RECURSIVE CallsThrough(_)
CallsThrough(S) ==
  IF S = {} THEN 0
  ELSE LET b == CHOOSE x \in S : TRUE
       IN h_cb[b].calls + CallsThrough(S \ {b})

NextBreakers ==
  \/ \E i \in Instances :
       /\ CallsThrough(BreakerIds) < MaxCbCalls
       /\ BreakerCall(GatewayBreaker(i), TRUE, 0)
  \/ \E b \in {SmtpBreaker, PushBreaker}, ok \in BOOLEAN, d \in 0..MaxDuration :
       /\ CallsThrough(BreakerIds) < MaxCbCalls
       /\ BreakerCall(b, ok, d)
  \/ Tick

SpecBreakers == Init /\ [][NextBreakers]_vars

----------------------------------------------------------------------------
(* CircuitBreaker.call of one breaker, called by several threads: the      *)
(* guarded function runs between the entry of the call (lines 46-53) and   *)
(* its return or exception (lines 57-61), and other calls may start        *)
(* meanwhile.  The class takes no lock.                                    *)

(* Lines 46-56: the call is rejected, or the guarded function starts.      *)
ThreadCall(i) ==
  LET b == SmtpBreaker
      cb == breaker[b]
  IN /\ ~InFlight(i)
     /\ h_cb[b].calls < MaxCbCalls
     /\ IF call_rejected(cb, now)
        THEN /\ call' = [call EXCEPT ![i] = [IdleFrame EXCEPT !.pc = "done",
                                                              !.ret = "breaker",
                                                              !.result = "unhandled_500"]]
             /\ h_cb' = [h_cb EXCEPT ![b].calls = @ + 1, ![b].last = "rejected",
                                     ![b].entered = "none"]
             /\ UNCHANGED breaker
        ELSE /\ call' = [call EXCEPT ![i] = [IdleFrame EXCEPT !.pc = "guarded",
                                                              !.ret = "breaker"]]
             /\ breaker' = record_on(b, call_enter(cb, now))
             /\ h_cb' = [h_cb EXCEPT
                           ![b].calls = @ + 1,
                           ![b].entered = breaker'[b].state,
                           ![b].invoked = @ + 1,
                           ![b].passed_in_half_open =
                              IF cb.state = "half_open" THEN @ + 1 ELSE @]
  /\ UNCHANGED deliveryVars
  /\ UNCHANGED <<storeVars, queues, now, uuidCount, h_calls, h_req, h_user, h_inst>>

(* Lines 57-61: the guarded function returned (ok) or raised. *)
ThreadReturn(i, ok) ==
  LET b == SmtpBreaker
  IN /\ call[i].pc = "guarded"
     /\ breaker' = record_on(b, IF ok THEN on_success(breaker[b])
                                      ELSE on_failure(breaker[b], now))
     /\ call' = [call EXCEPT ![i] = [IdleFrame EXCEPT
                                        !.pc = "done", !.ret = "breaker",
                                        !.result = IF ok THEN "returned" ELSE "error_500"]]
     /\ h_cb' = [h_cb EXCEPT ![b].last = IF ok THEN "returned" ELSE "raised",
                             ![b].raised_at = IF ok THEN @ ELSE now]
  /\ UNCHANGED deliveryVars
  /\ UNCHANGED <<storeVars, queues, now, uuidCount, h_calls, h_req, h_user, h_inst>>

NextThreads ==
  \/ \E i \in Instances : ThreadCall(i)
  \/ \E i \in Instances, ok \in BOOLEAN : ThreadReturn(i, ok)
  \/ Tick

SpecThreads == Init /\ [][NextThreads]_vars

----------------------------------------------------------------------------
(* send_email_smtp: CircuitBreaker.call around the retry wrapper around    *)
(* the SMTP function.                                                      *)

(* A caller invokes send_email_smtp. *)
CallSend ==
  /\ send.pc \in {"idle", "done"}
  /\ h_send.calls < MaxSends
  /\ send' = [IdleSend EXCEPT !.pc = "called"]
  /\ h_send' = [h_send EXCEPT !.calls = @ + 1]
  /\ UNCHANGED <<storeVars, queues, breaker, now, call, uuidCount, histVars,
                 consumer, h_work>>

(* circuit_breaker.wrapper and CircuitBreaker.call lines 46-53 *)
SendEnter ==
  /\ send.pc = "called"
  /\ LET cb == breaker[SmtpBreaker]
     IN IF call_rejected(cb, now)
        THEN /\ send' = [send EXCEPT !.pc = "done",
                                     !.result = "CircuitBreakerOpenException"]
             /\ h_send' = [h_send EXCEPT !.entered = "none"]
             /\ UNCHANGED breaker
        ELSE /\ breaker' = [breaker EXCEPT ![SmtpBreaker] = call_enter(cb, now)]
             /\ send' = [send EXCEPT !.pc = "attempt", !.attempt = 0]
             /\ h_send' = [h_send EXCEPT
                             !.entered = breaker'[SmtpBreaker].state,
                             !.count_at_entry = breaker'[SmtpBreaker].failure_count,
                             !.started_at = now]
  /\ UNCHANGED <<storeVars, queues, now, call, uuidCount, histVars, consumer, h_work>>

(* One pass of the retry loop, retry.py lines 56-81, and, when the retry   *)
(* wrapper returns or raises, CircuitBreaker.call lines 57-61.             *)
SendAttempt(outcome) ==
  /\ send.pc = "attempt"
  /\ in_range(send.attempt)
  /\ LET tried == [send EXCEPT !.outcomes = Append(@, outcome)]
     IN IF outcome = "ok"
        THEN /\ send' = [tried EXCEPT !.pc = "done", !.result = "returned"]
             /\ breaker' = [breaker EXCEPT ![SmtpBreaker] = on_success(@)]
             /\ UNCHANGED now
        ELSE LET delay == exponential_backoff(send.attempt + 1)
                 slept == sleeps_before_retry(send.attempt)
                 failed == [tried EXCEPT !.last_exception = outcome,
                                         !.sleeps = IF slept THEN Append(@, delay) ELSE @]
             IN /\ now' = IF slept THEN now + delay ELSE now
                /\ IF in_range(send.attempt + 1)
                   THEN /\ send' = [failed EXCEPT !.attempt = @ + 1]
                        /\ UNCHANGED breaker
                   ELSE /\ send' = [failed EXCEPT
                                      !.pc = "done",
                                      !.result = "MaxRetriesExceededException",
                                      !.cause = failed.last_exception,
                                      !.message =
                                         max_retries_message(failed.last_exception)]
                        /\ breaker' = [breaker EXCEPT ![SmtpBreaker] = on_failure(@, now')]
  /\ h_send' = [h_send EXCEPT !.attempt_end = now']
  /\ UNCHANGED <<storeVars, queues, call, uuidCount, histVars, consumer, h_work>>

(* Time passes between two sends. *)
Elapse(d) ==
  /\ send.pc \in {"idle", "done"}
  /\ h_send.elapses < MaxElapse
  /\ now' = now + d
  /\ h_send' = [h_send EXCEPT !.elapses = @ + 1]
  /\ UNCHANGED <<storeVars, queues, breaker, call, uuidCount, histVars, send,
                 consumer, h_work>>

NextSend ==
  \/ CallSend
  \/ SendEnter
  \/ \E outcome \in SendOutcomes : SendAttempt(outcome)
  \/ \E d \in 1..recovery_timeout : Elapse(d)

SpecSend == Init /\ [][NextSend]_vars

----------------------------------------------------------------------------
(* The channel workers of email.queue *)

(* What a successful admission leaves behind (api_gateway/main.py lines    *)
(* 152-186): the status record of a fresh notification_id and the message  *)
(* on the queue of its channel.  disabled tells whether the user has the   *)
(* email channel disabled in the user service.                             *)
Admitted(r, disabled) ==
  /\ TypeOf(r) = "email"
  /\ uuidCount < MaxPublished
  /\ LET nid == NotificationIdBase + uuidCount + 1
     IN /\ uuidCount' = uuidCount + 1
        /\ statusRec' = status_set(TRUE, nid, "pending")
        /\ queues' = publish_message(TypeOf(r), QueueMessage(r, nid))
        /\ h_work' = [h_work EXCEPT ![nid].published = 1, ![nid].disabled = disabled]
  /\ UNCHANGED <<marker, rate, breaker, now, call, histVars, send, consumer, h_send>>

(* Some publisher puts a body that is not JSON on email.queue. *)
PublishRaw ==
  /\ h_work[0].published < MaxRaw
  /\ queues' = publish_message("email", NotJson)
  /\ h_work' = [h_work EXCEPT ![0].published = @ + 1]
  /\ UNCHANGED <<storeVars, breaker, now, call, uuidCount, histVars, send, consumer,
                 h_send>>

(* The queue each consumer of the email channel subscribes to *)
ConsumedQueue(c) == "email.queue"

(* basic_qos(prefetch_count=1), rabbitmq_client.py line 106 *)
prefetch_count == 1

(* Messages delivered to consumer c and neither acknowledged nor rejected: *)
(* the one its callback is running on and the ones waiting in its channel. *)
unacked(c) ==
  Len(consumer[c].buffer) + (IF consumer[c].pc = "idle" THEN 0 ELSE 1)

broker_may_deliver_unbounded(c) == TRUE

(* The broker sends a message to a channel only while the channel holds    *)
(* fewer than prefetch_count unacknowledged messages; 0 means no limit.    *)
broker_may_deliver(c) ==
  prefetch_count = 0 \/ unacked(c) < prefetch_count

(* basic_consume (rabbitmq_client.py lines 106-114): the broker hands the  *)
(* head of the queue to a consumer that may take it; the consumer runs its *)
(* callback on it at once when no callback is running.                     *)
Deliver(c) ==
  /\ broker_may_deliver(c)
  /\ queues[ConsumedQueue(c)] # <<>>
  /\ LET body == Head(queues[ConsumedQueue(c)])
         id == WorkId(body)
         taken == [consumer EXCEPT
                     ![c].taken_after_signal = IF consumer[c].signalled THEN 1 ELSE @]
     IN /\ h_work[id].deliveries < MaxDeliveries
        /\ queues' = [queues EXCEPT ![ConsumedQueue(c)] = Tail(@)]
        /\ consumer' = IF consumer[c].pc = "idle"
                       THEN [taken EXCEPT ![c].pc = "callback", ![c].body = body]
                       ELSE [taken EXCEPT ![c].buffer = Append(@, body)]
        /\ h_work' = [h_work EXCEPT ![id].deliveries = @ + 1]
  /\ UNCHANGED <<storeVars, breaker, now, call, uuidCount, histVars, send, h_send>>

(* The callback of consumer c has acknowledged or rejected its message and *)
(* returned: the consumer runs it on the next message of its channel, if   *)
(* there is one.                                                           *)
Released(c) ==
  IF consumer[c].buffer = <<>>
  THEN [consumer EXCEPT ![c].pc = "idle", ![c].body = NotJson]
  ELSE [consumer EXCEPT ![c].pc = "callback", ![c].body = Head(consumer[c].buffer),
                        ![c].buffer = Tail(@)]

(* Mutant: a rejected message is never put back on its queue.              *)
basic_nack_discards(body, requeue) == queues

(* basic_nack(requeue=True): the message goes back to the head of its      *)
(* queue; requeue=False: no dead-letter exchange is declared for the       *)
(* queue (rabbitmq_client.py line 57), so the broker discards it.          *)
basic_nack(body, requeue) ==
  IF requeue
  THEN [queues EXCEPT !["email.queue"] = <<body>> \o @]
  ELSE queues

(* email_service/main.py callback, lines 251-269.  NotificationPayload has *)
(* no field correlation_id, so line 258 raises AttributeError for every    *)
(* body that was parsed, and process_email_notification is not reached.    *)
EmailServiceCallback ==
  LET c == "email_service"
      body == consumer[c].body
      id == WorkId(body)
  IN /\ consumer[c].pc = "callback"
     /\ IF callback_raises(body)
        THEN /\ queues' = basic_nack(body, TRUE)
             /\ consumer' = Released(c)
             /\ h_work' = [h_work EXCEPT ![id].requeues = @ + 1]
        ELSE /\ consumer' = [consumer EXCEPT ![c].pc = "process"]
             /\ UNCHANGED <<queues, h_work>>
     /\ UNCHANGED <<storeVars, breaker, now, call, uuidCount, histVars, send, h_send>>

(* email_service/worker.py callback, lines 172-186, up to the call of      *)
(* send_email_smtp at line 137 of process_email_notification.              *)
EmailWorkerCallback ==
  LET c == "email_worker"
      body == consumer[c].body
      id == WorkId(body)
  IN /\ consumer[c].pc = "callback"
     /\ IF ~json_loads_ok(body)
        THEN /\ queues' = basic_nack(body, FALSE)
             /\ consumer' = Released(c)
             /\ h_work' = [h_work EXCEPT ![id].drops = @ + 1]
             /\ UNCHANGED send
        ELSE /\ send' = [IdleSend EXCEPT !.pc = "called"]
             /\ consumer' = [consumer EXCEPT ![c].pc = "sending"]
             /\ UNCHANGED <<queues, h_work>>
     /\ UNCHANGED <<storeVars, breaker, now, call, uuidCount, histVars, h_send>>

(* email_service/worker.py, after send_email_smtp: lines 144-153 and 181   *)
(* when it returned, lines 155-169 and 183-186 when it raised.  The result *)
(* of redis_client.set is not looked at.                                   *)
EmailWorkerSettle(ok) ==
  LET c == "email_worker"
      body == consumer[c].body
      id == WorkId(body)
      counted == [h_work EXCEPT
                    ![id].provider_calls = @ + Len(send.outcomes),
                    ![id].exhausted =
                       IF send.result = "MaxRetriesExceededException" THEN @ + 1 ELSE @]
  IN /\ consumer[c].pc = "sending"
     /\ send.pc = "done"
     /\ IF send.result = "returned"
        THEN /\ statusRec' = status_set(ok, id, "delivered")
             /\ h_work' = [counted EXCEPT ![id].acks = @ + 1]
             /\ UNCHANGED queues
        ELSE /\ statusRec' = status_set(ok, id, "failed")
             /\ queues' = basic_nack(body, FALSE)
             /\ h_work' = [counted EXCEPT ![id].drops = @ + 1]
     /\ consumer' = Released(c)
     /\ send' = IdleSend
     /\ UNCHANGED <<marker, rate, breaker, now, call, uuidCount, histVars, h_send>>

NextWorker ==
  \/ \E r \in RequestIds, disabled \in BOOLEAN : Admitted(r, disabled)
  \/ PublishRaw
  \/ \E c \in Consumers : Deliver(c)
  \/ EmailServiceCallback
  \/ EmailWorkerCallback
  \/ SendEnter
  \/ \E outcome \in SendOutcomes : SendAttempt(outcome)
  \/ \E ok \in BOOLEAN : EmailWorkerSettle(ok)

SpecWorker == Init /\ [][NextWorker]_vars

----------------------------------------------------------------------------
(* The email worker process, email_service/worker.py main, and the         *)
(* termination signals it receives.                                        *)

(* signal_handler, worker.py lines 37-39, registered for SIGTERM and       *)
(* SIGINT at lines 193-194: it writes a log line and returns.  It does not *)
(* assign shutdown_requested (line 34), which no code reads, and nothing   *)
(* calls stop_consuming; the interrupted call goes on where it was.        *)
Signal(c) ==
  /\ ~consumer[c].signalled
  /\ consumer' = [consumer EXCEPT ![c].signalled = TRUE]
  /\ UNCHANGED <<storeVars, queues, breaker, now, call, uuidCount, histVars, send,
                 h_send, h_work>>

NextShutdown ==
  \/ \E r \in RequestIds, disabled \in BOOLEAN : Admitted(r, disabled)
  \/ Deliver("email_worker")
  \/ EmailWorkerCallback
  \/ SendEnter
  \/ \E outcome \in SendOutcomes : SendAttempt(outcome)
  \/ \E ok \in BOOLEAN : EmailWorkerSettle(ok)
  \/ Signal("email_worker")

SpecShutdown == Init /\ [][NextShutdown]_vars

----------------------------------------------------------------------------
(* process_email_notification of email_service/main.py, lines 155-246, and *)
(* the acknowledgement of its callback, lines 261-269, run on a payload    *)
(* that carries the attributes the function reads: what the function does  *)
(* once it is entered.  EmailServiceCallback above is what the callback    *)
(* does with the payloads of notification_schema.py.                       *)

(* payload.model_dump(): the fields of NotificationPayload.  The            *)
(* notification_id of the gateway's message is not one of them, and        *)
(* publish_message is called without message_id (lines 218, 246).          *)
model_dump(body) == [body EXCEPT !.notification_id = 0, !.message_id = 0]

(* send_to_dead_letter_queue, rabbitmq_client.py lines 116-119 *)
send_to_dead_letter_queue(message, reason) ==
  publish_message("failed",
    [f \in DOMAIN message \cup {"failure_reason"} |->
       IF f = "failure_reason" THEN reason ELSE message[f]])

(* Lines 195-201 and 232-238: the record under the request_id of the       *)
(* payload is read, and written back with the new status if it was found.  *)
(* RedisClient.get returns None and RedisClient.set returns False when the *)
(* store raises.                                                           *)
update_status(ok, request_id, status) ==
  IF ok /\ request_id \in DOMAIN statusRec
  THEN status_set(TRUE, request_id, status)
  ELSE statusRec

(* What get_user_preferences can return for a user: None when neither the  *)
(* cache nor the user service answers, or the stored preferences.          *)
Preferences(disabled) == {"none", IF disabled THEN "disabled" ELSE "enabled"}

(* The k-th admitted message carries the k-th request id of the email      *)
(* channel.                                                                *)
AdmittedNext(disabled) ==
  /\ uuidCount < MaxProcessed
  /\ Admitted(2 * uuidCount + 1, disabled)

(* Lines 155-192, up to the call of send_email_smtp: user_found is whether *)
(* get_user_info returned a user, prefs what get_user_preferences          *)
(* returned, rendered whether render_template returned a rendering.        *)
(* The function returns at line 167 (the callback acknowledges, line 264), *)
(* raises into the handler of line 240 (pc "requeue"), or calls            *)
(* send_email_smtp.                                                        *)
ProcessStart(user_found, prefs, rendered) ==
  LET c == "email_service"
      body == consumer[c].body
      id == WorkId(body)
  IN /\ consumer[c].pc = "callback"
     /\ json_loads_ok(body)
     /\ payload_valid(body)
     /\ prefs \in Preferences(h_work[id].disabled)
     /\ IF ~user_found
        THEN /\ consumer' = [consumer EXCEPT ![c].pc = "requeue"]
             /\ UNCHANGED <<send, h_work>>
        ELSE IF prefs = "disabled"
        THEN /\ consumer' = Released(c)
             /\ h_work' = [h_work EXCEPT ![id].skipped = @ + 1, ![id].acks = @ + 1]
             /\ UNCHANGED send
        ELSE IF ~rendered
        THEN /\ consumer' = [consumer EXCEPT ![c].pc = "requeue"]
             /\ h_work' = [h_work EXCEPT ![id].render_failed = @ + 1]
             /\ UNCHANGED send
        ELSE /\ send' = [IdleSend EXCEPT !.pc = "called"]
             /\ consumer' = [consumer EXCEPT ![c].pc = "sending"]
             /\ UNCHANGED h_work
     /\ UNCHANGED <<storeVars, queues, breaker, now, call, uuidCount, histVars, h_send>>

(* send_email_smtp returned: lines 195-201, then line 264. *)
ProcessSent(ok) ==
  LET c == "email_service"
      body == consumer[c].body
      id == WorkId(body)
  IN /\ consumer[c].pc = "sending"
     /\ send.pc = "done"
     /\ send.result = "returned"
     /\ statusRec' = update_status(ok, body.request_id, "sent")
     /\ consumer' = Released(c)
     /\ send' = IdleSend
     /\ h_work' = [h_work EXCEPT ![id].provider_calls = @ + Len(send.outcomes),
                                 ![id].sent = @ + 1, ![id].acks = @ + 1,
                                 ![id].store_fault = @ \/ ~ok]
     /\ UNCHANGED <<marker, rate, queues, breaker, now, call, uuidCount, histVars,
                    h_send>>

(* The handlers of lines 212-218 and 240-246: the dump of the payload is   *)
(* published with routing key email and the function returns (pc "ack").   *)
(* If the publish raises, the exception leaves the function and the        *)
(* callback rejects the delivery with requeue=True (line 269).             *)
ProcessRequeue(ok) ==
  LET c == "email_service"
      body == consumer[c].body
      id == WorkId(body)
      copy == model_dump(body)
      open == consumer[c].pc = "sending"
  IN /\ \/ consumer[c].pc = "requeue"
        \/ /\ consumer[c].pc = "sending"
           /\ send.pc = "done"
           /\ send.result = "CircuitBreakerOpenException"
     /\ IF publish_raises(ok)
        THEN /\ queues' = basic_nack(body, TRUE)
             /\ consumer' = Released(c)
             /\ h_work' = [h_work EXCEPT
                             ![id].requeues = @ + 1,
                             ![id].circuit_open = IF open THEN @ + 1 ELSE @]
        ELSE /\ queues' = IF ok THEN publish_message("email", copy) ELSE queues
             /\ consumer' = [consumer EXCEPT ![c].pc = "ack"]
             /\ h_work' = [h_work EXCEPT
                             ![id].republished = @ + 1,
                             ![id].circuit_open = IF open THEN @ + 1 ELSE @,
                             ![WorkId(copy)].published = @ + 1,
                             ![WorkId(copy)].disabled = h_work[id].disabled]
     /\ send' = IdleSend
     /\ UNCHANGED <<storeVars, breaker, now, call, uuidCount, histVars, h_send>>

(* Line 264, after process_email_notification returned from one of its     *)
(* requeue handlers.                                                       *)
ProcessAck ==
  LET c == "email_service"
      id == WorkId(consumer[c].body)
  IN /\ consumer[c].pc = "ack"
     /\ consumer' = Released(c)
     /\ h_work' = [h_work EXCEPT ![id].acks = @ + 1]
     /\ UNCHANGED <<storeVars, queues, breaker, now, call, uuidCount, histVars, send,
                    h_send>>

(* The handler of lines 220-238: the dump of the payload goes to           *)
(* failed.queue, the status record is updated, and the callback            *)
(* acknowledges the delivery.  If the publish raises, the callback rejects *)
(* the delivery with requeue=True.                                         *)
ProcessDeadLetter(ok, ok_store) ==
  LET c == "email_service"
      body == consumer[c].body
      id == WorkId(body)
      counted == [h_work EXCEPT ![id].provider_calls = @ + Len(send.outcomes),
                                ![id].exhausted = @ + 1]
  IN /\ consumer[c].pc = "sending"
     /\ send.pc = "done"
     /\ send.result = "MaxRetriesExceededException"
     /\ IF publish_raises(ok)
        THEN /\ ok_store
             /\ queues' = basic_nack(body, TRUE)
             /\ h_work' = [counted EXCEPT ![id].requeues = @ + 1]
             /\ UNCHANGED statusRec
        ELSE /\ queues' = IF ok
                          THEN send_to_dead_letter_queue(model_dump(body),
                                                         "Max retries exceeded")
                          ELSE queues
             /\ statusRec' = update_status(ok_store, body.request_id, "failed")
             /\ h_work' = [counted EXCEPT ![id].dead_lettered = @ + 1,
                                          ![id].acks = @ + 1,
                                          ![id].store_fault = @ \/ ~ok_store]
     /\ consumer' = Released(c)
     /\ send' = IdleSend
     /\ UNCHANGED <<marker, rate, breaker, now, call, uuidCount, histVars, h_send>>

NextProcess ==
  \/ \E disabled \in BOOLEAN : AdmittedNext(disabled)
  \/ Deliver("email_service")
  \/ \E user_found \in BOOLEAN, prefs \in {"none", "enabled", "disabled"},
        rendered \in BOOLEAN : ProcessStart(user_found, prefs, rendered)
  \/ SendEnter
  \/ \E outcome \in SendOutcomes : SendAttempt(outcome)
  \/ \E ok \in BOOLEAN : ProcessSent(ok)
  \/ \E ok \in BOOLEAN : ProcessRequeue(ok)
  \/ ProcessAck
  \/ \E ok \in BOOLEAN, ok_store \in BOOLEAN : ProcessDeadLetter(ok, ok_store)

SpecProcess == Init /\ [][NextProcess]_vars

----------------------------------------------------------------------------
(* Properties of the admission path *)

RateLimitPcs == {"rl_get", "rl_setex", "rl_incr"}

(* C1: for a request id whose admissions did not overlap and whose marker  *)
(* was neither lost to a store error nor expired, at most one message is   *)
(* published; once a call has succeeded exactly one message is published   *)
(* and the marker exists; and every call started after that success is     *)
(* answered already_processed.                                             *)
C1_IdempotentAdmission ==
  \A r \in RequestIds :
    (~h_req[r].faulted /\ ~h_req[r].overlapped) =>
      /\ h_req[r].published <= 1
      /\ h_req[r].succeeded >= 1 =>
           (h_req[r].published = 1 /\ h_req[r].succeeded = 1 /\ r \in marker)
      /\ \A i \in Instances :
           (call[i].pc = "done" /\ call[i].request_id = r /\ h_inst[i].after_ok)
             => call[i].result = "already_processed"

C1_Witness ==
  \E r \in RequestIds, i \in Instances :
    /\ ~h_req[r].faulted /\ ~h_req[r].overlapped
    /\ h_req[r].succeeded = 1 /\ h_req[r].published = 1
    /\ call[i].pc = "done" /\ call[i].request_id = r /\ h_inst[i].after_ok
    /\ call[i].result = "already_processed"

(* C2: a call whose idempotency check reads an existing marker returns     *)
(* already_processed, and neither its start nor its check changes the      *)
(* markers, the rate-limit counters, the status records or the queues.     *)
C2_AlreadyProcessedFrame ==
  [][\A i \in Instances :
       /\ (call'[i] # call[i] /\ call[i].pc \in {"idle", "done", "check"})
            => UNCHANGED <<marker, rate, statusRec, queues, uuidCount>>
       /\ (/\ call[i].pc = "check"
           /\ call'[i] # call[i]
           /\ call[i].request_id \in marker
           /\ h_inst'[i].fault # "read")
            => (call'[i].pc = "done" /\ call'[i].result = "already_processed")]_vars

C2_Witness ==
  \E i \in Instances :
    /\ call[i].pc = "done"
    /\ call[i].result = "already_processed"
    /\ call[i].request_id \in marker
    /\ h_req[call[i].request_id].published = 1

(* C3: if no marker of a request id was lost to a store error or expired,  *)
(* at most one message with that request id is published, however the      *)
(* calls carrying it interleave.                                           *)
C3_AtMostOnePublish ==
  \A r \in RequestIds : ~h_req[r].faulted => h_req[r].published <= 1

(* C6: a store error at the read, the initial set or the increment of      *)
(* check_rate_limit makes it return allowed with the full limit as         *)
(* remaining, and send_notification goes on to create the status record.   *)
C6_FailOpen ==
  [][\A i \in Instances :
       (call'[i] # call[i] /\ h_inst'[i].fault \in {"get", "setex", "incr"})
         => /\ call'[i].is_allowed
            /\ call'[i].remaining = RATE_LIMIT_PER_USER
            /\ call'[i].pc = "status"]_vars

C6_Witness ==
  /\ \E i \in Instances : h_inst[i].fault = "incr" /\ call[i].pc = "status"
  /\ \E r \in RequestIds : h_req[r].published >= 1

(* C7: a marker exists for a request id only if a message with that        *)
(* request id has been published.                                          *)
C7_MarkerAfterPublish ==
  \A r \in marker : h_req[r].published >= 1

C7_Witness ==
  \E r \in RequestIds :
    /\ r \in marker
    /\ h_req[r].publish_failed
    /\ h_req[r].published_after_failure

(* C8: when the publish fails, the call ends with an error, nothing is     *)
(* published, the markers are unchanged and the status record of the call  *)
(* has been written (unless that write itself failed); and a call that     *)
(* finds no marker is not answered already_processed but goes on.          *)
C8_PublishFailure ==
  [][\A i \in Instances :
       /\ (call[i].pc = "publish" /\ call'[i].pc = "done")
            => /\ call'[i].result = "error_500"
               /\ marker' = marker
               /\ queues' = queues
               /\ \/ call[i].notification_id \in DOMAIN statusRec
                  \/ h_inst[i].fault = "status"
       /\ (/\ call[i].pc = "check"
           /\ call'[i] # call[i]
           /\ call[i].request_id \notin marker)
            => call'[i].pc = "rl_get"]_vars

C8_Witness ==
  \E r \in RequestIds :
    /\ h_req[r].published_after_failure
    /\ h_req[r].published = 1
    /\ Cardinality(DOMAIN statusRec) >= 2

(* C9: once failure_threshold admission calls in a row have failed on a    *)
(* gateway (the clock does not move on the admission path, so no recovery  *)
(* timeout elapses), no call of that gateway runs the admission steps, and *)
(* the calls made since are answered service-unavailable.                  *)
C9_FailFast ==
  \A i \in Instances :
    h_inst[i].failed_calls >= failure_threshold =>
      /\ ~InFlight(i)
      /\ h_inst[i].failed_calls > failure_threshold
           => call[i].result = "service_unavailable_503"

----------------------------------------------------------------------------
(* Properties of check_rate_limit *)

(* C4: in a window without store errors and without overlapping calls, a   *)
(* call that finds k calls already allowed in the window is allowed with   *)
(* remaining limit-k-1 when k < limit and rejected with remaining 0        *)
(* otherwise; the count k starts again at 0 when the key expires.          *)
C4_RateLimitWindow ==
  [][\A i \in Instances :
       (/\ call[i].pc \in RateLimitPcs
        /\ call'[i].pc \notin RateLimitPcs
        /\ ~h_user'[RateLimitUserId(call[i].user_id)].faulted
        /\ ~h_user'[RateLimitUserId(call[i].user_id)].overlapped)
         => LET k == h_user[RateLimitUserId(call[i].user_id)].allowed
            IN IF k < RATE_LIMIT_PER_USER
               THEN call'[i].is_allowed /\ call'[i].remaining = RATE_LIMIT_PER_USER - k - 1
               ELSE ~call'[i].is_allowed /\ call'[i].remaining = 0]_vars

C4_Witness ==
  \E k \in RateKeys, i \in Instances :
    /\ ~h_user[k].faulted /\ ~h_user[k].overlapped
    /\ h_user[k].full_windows >= 1
    /\ h_user[k].allowed = 1
    /\ call[i].pc = "done" /\ call[i].is_allowed
    /\ call[i].remaining = RATE_LIMIT_PER_USER - 1

(* C5: without store errors, the calls allowed in a window never exceed    *)
(* the limit and the counter equals their number, however the calls        *)
(* interleave.                                                             *)
C5_NoUndercount ==
  \A k \in RateKeys :
    ~h_user[k].faulted =>
      /\ h_user[k].allowed <= RATE_LIMIT_PER_USER
      /\ rate[k].present => rate[k].count = h_user[k].allowed

----------------------------------------------------------------------------
(* Properties of the circuit breaker *)

(* C10: a breaker that is closed has seen fewer than failure_threshold     *)
(* consecutive failures, and a breaker that went from closed to open did   *)
(* so on failure_threshold consecutive failures.                           *)
C10_OpensOnConsecutiveFailures ==
  \A b \in BreakerIds :
    /\ breaker[b].state = "closed"
         => h_cb[b].consecutive_failures < failure_threshold
    /\ (breaker[b].state = "open" /\ h_cb[b].opened_from = "closed")
         => h_cb[b].consecutive_failures >= failure_threshold

(* A step of CircuitBreaker.call on breaker b *)
CallStep(b) == h_cb'[b].calls = h_cb[b].calls + 1

(* C11: a call on a breaker that is open, made less than recovery_timeout  *)
(* after its last recorded failure, is rejected, does not invoke the       *)
(* guarded operation and leaves state, failure_count and                   *)
(* last_failure_time as they were.                                         *)
C11_OpenRejects ==
  [][\A b \in BreakerIds :
       (/\ CallStep(b)
        /\ breaker[b].state = "open"
        /\ now - breaker[b].last_failure_time < recovery_timeout)
         => /\ h_cb'[b].last = "rejected"
            /\ h_cb'[b].invoked = h_cb[b].invoked
            /\ breaker'[b] = breaker[b]]_vars

C11_Witness ==
  \E b \in BreakerIds :
    /\ h_cb[b].last = "rejected"
    /\ breaker[b].state = "open"
    /\ h_cb[b].invoked = failure_threshold
    /\ h_cb[b].calls > failure_threshold

(* C12: a call on an open breaker runs the guarded operation in half_open  *)
(* exactly when recovery_timeout has elapsed since the last recorded       *)
(* failure; before that it is rejected, and half_open is entered from no   *)
(* other state.                                                            *)
C12_HalfOpenAfterTimeout ==
  [][\A b \in BreakerIds :
       CallStep(b) =>
         /\ breaker[b].state = "open" =>
              IF now - h_cb[b].raised_at >= recovery_timeout
              THEN h_cb'[b].entered = "half_open" /\ h_cb'[b].invoked = h_cb[b].invoked + 1
              ELSE h_cb'[b].last = "rejected" /\ h_cb'[b].invoked = h_cb[b].invoked
         /\ h_cb'[b].entered = "half_open" => breaker[b].state = "open"]_vars

C12_Witness ==
  \E b \in BreakerIds :
    /\ h_cb[b].entered = "half_open"
    /\ h_cb[b].calls > h_cb[b].invoked
    /\ now = h_cb[b].raised_at

C14_ProbeFailureReopens ==
  [][\A b \in BreakerIds :
       CallStep(b) =>
         /\ (h_cb'[b].entered = "half_open" /\ h_cb'[b].last = "raised")
              => (breaker'[b].state = "open" /\ breaker'[b].last_failure_time = now')
         /\ (/\ breaker[b].state = "open"
             /\ h_cb[b].opened_from = "half_open"
             /\ now < h_cb[b].raised_at + recovery_timeout)
              => h_cb'[b].last = "rejected"]_vars

C14_Witness ==
  \E b \in BreakerIds :
    /\ breaker[b].state = "open"
    /\ h_cb[b].opened_from = "half_open"
    /\ h_cb[b].last = "rejected"
    /\ now > h_cb[b].raised_at

----------------------------------------------------------------------------
(* Properties of the retry executor and of the guarded send *)

RECURSIVE SumSeq(_)
SumSeq(q) == IF q = <<>> THEN 0 ELSE Head(q) + SumSeq(Tail(q))

Failures(q) == Cardinality({k \in 1..Len(q) : q[k] # "ok"})

(* C15: a send that returns after failed attempts leaves the breaker's     *)
(* failure_count as it was when the send was let through (0 and closed     *)
(* for a probe), and a send that exhausts its attempts raises it by        *)
(* exactly 1.                                                              *)
C15_BreakerCountsSends ==
  send.pc = "done" =>
    /\ send.result = "returned" =>
         /\ breaker[SmtpBreaker].failure_count =
               IF h_send.entered = "half_open" THEN 0 ELSE h_send.count_at_entry
         /\ breaker[SmtpBreaker].state = "closed"
    /\ send.result = "MaxRetriesExceededException" =>
         /\ Failures(send.outcomes) = max_attempts
         /\ breaker[SmtpBreaker].failure_count = h_send.count_at_entry + 1

C15_Witness ==
  /\ send.pc = "done"
  /\ send.result = "returned"
  /\ Failures(send.outcomes) = max_attempts - 1
  /\ h_send.entered = "closed"
  /\ h_send.count_at_entry = 1
  /\ breaker[SmtpBreaker].failure_count = 1

(* C16: a send let through by the breaker invokes the operation until its  *)
(* first success, at most max_attempts times; it returns at the first      *)
(* success and raises MaxRetriesExceededException, with the last failure   *)
(* as its cause, after exactly max_attempts failures.                      *)
C16_RetryBound ==
  LET n == Len(send.outcomes)
  IN /\ n <= max_attempts
     /\ \A k \in 1..(n - 1) : send.outcomes[k] # "ok"
     /\ send.pc = "attempt" => (n < max_attempts /\ Failures(send.outcomes) = n)
     /\ (send.pc = "done" /\ send.result = "returned") => send.outcomes[n] = "ok"
     /\ (send.pc = "done" /\ send.result = "MaxRetriesExceededException") =>
          /\ n = max_attempts
          /\ Failures(send.outcomes) = max_attempts
          /\ send.cause = send.outcomes[max_attempts]

C16_Witness ==
  /\ send.pc = "done"
  /\ send.result = "MaxRetriesExceededException"
  /\ send.outcomes = <<"TimeoutError", "TimeoutError", "SMTPException">>
  /\ send.cause = "SMTPException"

(* C17: the k-th failed attempt before the last is followed by a sleep of  *)
(* backoff_factor * backoff_base^k, no sleep follows the last failed       *)
(* attempt or a success, and the send takes the sum of its sleeps; two     *)
(* failures and a success give the sleeps 2 and 4.                         *)
C17_BackoffSchedule ==
  LET n == Len(send.outcomes)
      f == Failures(send.outcomes)
  IN /\ \A k \in 1..Len(send.sleeps) :
          send.sleeps[k] = backoff_factor * (backoff_base ^ k)
     /\ Len(send.sleeps) = IF f < max_attempts THEN f ELSE max_attempts - 1
     /\ n > 0 => h_send.attempt_end - h_send.started_at = SumSeq(send.sleeps)
     /\ (max_attempts = 3 /\ backoff_base = 2 /\ backoff_factor = 1 /\ f = 2 /\ n = 3)
          => send.sleeps = <<2, 4>>

C17_Witness ==
  /\ send.pc = "done"
  /\ send.result = "returned"
  /\ Len(send.outcomes) = 3
  /\ send.sleeps = <<2, 4>>
  /\ h_send.attempt_end - h_send.started_at = 6

----------------------------------------------------------------------------
(* Properties of the channel workers *)

Settled(id) ==
  \A c \in Consumers : consumer[c].pc = "idle" \/ consumer[c].body.notification_id # id

DeadLetters(id) ==
  {k \in 1..Len(queues["failed.queue"]) :
     queues["failed.queue"][k].notification_id = id}

Queued(id) ==
  {k \in 1..Len(queues["email.queue"]) :
     queues["email.queue"][k].notification_id = id}

(* C18: once the delivery of a message whose send failed on all            *)
(* max_attempts attempts is settled, the dead-letter queue holds exactly   *)
(* one deposit for it, the message was acknowledged and not negatively     *)
(* acknowledged, and it is not on the channel queue.                       *)
C18_DeadLettered ==
  \A id \in WorkIds :
    (h_work[id].exhausted >= 1 /\ Settled(id)) =>
      /\ Cardinality(DeadLetters(id)) = 1
      /\ h_work[id].acks = 1
      /\ h_work[id].requeues = 0 /\ h_work[id].drops = 0
      /\ Queued(id) = {}

(* C19: a message of a user who has the channel disabled is acknowledged   *)
(* at its delivery, without a call of the provider, a dead-letter deposit  *)
(* or a requeue, and its status record stays as admission wrote it.        *)
C19_SkipDisabled ==
  \A id \in WorkIds :
    (h_work[id].disabled /\ h_work[id].deliveries >= 1 /\ Settled(id)) =>
      /\ h_work[id].acks = h_work[id].deliveries
      /\ h_work[id].provider_calls = 0
      /\ DeadLetters(id) = {}
      /\ h_work[id].requeues = 0 /\ h_work[id].drops = 0
      /\ statusRec[id] = "pending"

(* C20: a body that cannot be deserialized is negatively acknowledged      *)
(* without requeue: it is delivered once and causes no provider call.      *)
C20_MalformedNotRequeued ==
  (h_work[0].deliveries >= 1 /\ Settled(0)) =>
    /\ h_work[0].requeues = 0
    /\ h_work[0].drops = h_work[0].deliveries
    /\ h_work[0].deliveries <= h_work[0].published
    /\ h_work[0].provider_calls = 0
    /\ Queued(0) = {}

----------------------------------------------------------------------------
(* Properties of process_email_notification of email_service/main.py *)

(* C21: once the delivery of a message whose template failed to render is  *)
(* settled, the message was deposited on the dead-letter queue and         *)
(* acknowledged, and it was neither republished to the channel queue nor   *)
(* requeued.                                                               *)
C21_RenderFailureDeadLettered ==
  \A id \in WorkIds :
    (h_work[id].render_failed >= 1 /\ Settled(id) /\ Queued(id) = {}) =>
      /\ h_work[id].dead_lettered >= 1
      /\ h_work[id].acks >= 1
      /\ h_work[id].republished = 0
      /\ h_work[id].requeues = 0

(* C22: a message whose send returned, and whose status update met no      *)
(* store error, has the status record of its notification set to sent and  *)
(* was acknowledged; it was neither requeued nor dead-lettered.            *)
C22_SentRecorded ==
  \A id \in WorkIds \ CopyIds :
    (h_work[id].sent >= 1 /\ ~h_work[id].store_fault) =>
      /\ id \in DOMAIN statusRec
      /\ statusRec[id] = "sent"
      /\ h_work[id].acks = h_work[id].sent
      /\ h_work[id].dead_lettered = 0
      /\ h_work[id].republished = 0

(* C23: a message that the worker republished after an open circuit or an  *)
(* unexpected failure was acknowledged, has no dead-letter deposit and     *)
(* still has the status record the gateway wrote; and every message on the *)
(* channel queue is as the gateway published it, with its notification_id  *)
(* and with its request_id as message identifier.                          *)
C23_RequeuedIdenticalCopy ==
  /\ \A id \in WorkIds \ (CopyIds \cup {0}) :
       (h_work[id].republished >= 1 /\ Settled(id)) =>
         /\ h_work[id].acks >= 1
         /\ h_work[id].dead_lettered = 0
         /\ statusRec[id] = "pending"
  /\ \A k \in 1..Len(queues["email.queue"]) :
       LET message == queues["email.queue"][k]
       IN /\ message.message_id = message.request_id
          /\ message.notification_id # 0

----------------------------------------------------------------------------
(* Properties of the deliveries *)

(* C24: every admitted message is still on its channel queue, or in flight *)
(* at a consumer, or was acknowledged, or has a deposit on the dead-letter *)
(* queue.                                                                  *)
C24_AtLeastOnce ==
  \A id \in WorkIds \ {0} :
    h_work[id].published >= 1 =>
      \/ Queued(id) # {}
      \/ ~Settled(id)
      \/ h_work[id].acks >= 1
      \/ DeadLetters(id) # {}

(* C25: every message rejected without requeue has a deposit on the        *)
(* dead-letter queue for each such rejection.                              *)
C25_RejectedIsDeadLettered ==
  \A id \in WorkIds : Cardinality(DeadLetters(id)) >= h_work[id].drops

(* The request id of the messages counted under id in SpecProcess *)
RequestOf(id) ==
  IF id \in CopyIds THEN id ELSE 2 * (id - NotificationIdBase) - 1

(* C26: the dead-letter queue only grows, and once a message has been      *)
(* deposited there, no message with its request id is on the channel queue *)
(* or at a consumer, and the provider is not called for it again.          *)
C26_DeadLetterTerminal ==
  [][/\ Len(queues'["failed.queue"]) >= Len(queues["failed.queue"])
     /\ SubSeq(queues'["failed.queue"], 1, Len(queues["failed.queue"]))
          = queues["failed.queue"]
     /\ \A id \in WorkIds \ {0} :
          h_work[id].dead_lettered >= 1 =>
            /\ \A j \in 1..Len(queues'["email.queue"]) :
                 queues'["email.queue"][j].request_id # RequestOf(id)
            /\ \A c \in Consumers :
                 consumer'[c].pc # "idle" => consumer'[c].body.request_id # RequestOf(id)
            /\ h_work'[id].provider_calls = h_work[id].provider_calls
            /\ h_work'[id].deliveries = h_work[id].deliveries]_vars

C26_Witness ==
  /\ \E id \in WorkIds \ {0} :
       /\ h_work[id].dead_lettered >= 1
       /\ \E k \in 1..Len(queues["failed.queue"]) :
            queues["failed.queue"][k].request_id = RequestOf(id)
  /\ consumer["email_service"].pc = "sending"
  /\ send.pc = "done"

(* C27: a consumer never holds more than one message that it has neither   *)
(* acknowledged nor rejected, and the broker delivers a message to a       *)
(* consumer only when the consumer holds none.                             *)
C27_OneUnacknowledged ==
  /\ [](\A c \in Consumers : unacked(c) <= 1)
  /\ [][\A c \in Consumers :
          \A id \in WorkIds :
            (h_work'[id].deliveries > h_work[id].deliveries /\ consumer'[c] # consumer[c])
              => (unacked(c) = 0 /\ unacked(c)' = 1)]_vars

C27_Witness ==
  \E c \in Consumers :
    /\ unacked(c) = 1
    /\ queues[ConsumedQueue(c)] # <<>>
    /\ h_work[WorkId(Head(queues[ConsumedQueue(c)]))].deliveries < MaxDeliveries

(* C28: a worker that has received a termination signal takes no new       *)
(* message from its queue.                                                 *)
C28_StopsAfterSignal ==
  \A c \in Consumers : consumer[c].taken_after_signal = 0

----------------------------------------------------------------------------
(* Properties of the set of breakers *)

(* C29: a call through one breaker leaves the state, the failure_count and *)
(* the last_failure_time of every other breaker as they were.              *)
C29_BreakersIndependent ==
  [][\A b \in BreakerIds :
       CallStep(b) => \A other \in BreakerIds \ {b} : breaker'[other] = breaker[other]]_vars

C29_Witness ==
  /\ breaker[SmtpBreaker].state = "open"
  /\ breaker[PushBreaker].state = "closed"
  /\ breaker[PushBreaker].failure_count = 1
  /\ \E i \in Instances :
       /\ h_cb[GatewayBreaker(i)].calls >= 1
       /\ breaker[GatewayBreaker(i)] = NewBreaker

(* C30: once failure_threshold admission calls in a row have failed on a   *)
(* gateway, its send_notification breaker has counted them and is open.    *)
C30_AdmissionBreakerOpens ==
  \A i \in Instances :
    h_inst[i].failed_calls >= failure_threshold =>
      /\ breaker[GatewayBreaker(i)].failure_count >= failure_threshold
      /\ breaker[GatewayBreaker(i)].state = "open"

(* C31: no call is passed through to the guarded function while the        *)
(* breaker is already HALF_OPEN, that is, while a probe is under way.      *)
C31_SingleProbe ==
  \A b \in BreakerIds : h_cb[b].passed_in_half_open = 0

(* C32: a breaker through which no call has been made is CLOSED with       *)
(* failure_count 0 and no failure time, and a call that enters a CLOSED    *)
(* breaker and returns leaves its state CLOSED and its count as it was.    *)
C32_NewBreakerClosed ==
  /\ [](\A b \in BreakerIds :
          h_cb[b].calls = 0 =>
            /\ breaker[b].state = "closed"
            /\ breaker[b].failure_count = 0
            /\ breaker[b].last_failure_time = NoTime)
  /\ [][\A b \in BreakerIds :
          (CallStep(b) /\ breaker[b].state = "closed" /\ h_cb'[b].last = "returned")
            => /\ breaker'[b].state = "closed"
               /\ breaker'[b].failure_count = breaker[b].failure_count
               /\ h_cb'[b].invoked = h_cb[b].invoked + 1]_vars

C32_Witness ==
  /\ h_cb[SmtpBreaker].last = "returned"
  /\ h_cb[SmtpBreaker].entered = "closed"
  /\ h_cb[SmtpBreaker].calls = 1
  /\ breaker[SmtpBreaker] = NewBreaker

----------------------------------------------------------------------------
(* Properties of the retry wrapper, continued *)

----------------------------------------------------------------------------
(* Properties of the status records *)

(* C34: after a worker has sent or dead-lettered a message, with no store  *)
(* error during its status update, the status record stored under the      *)
(* notification_id that admission returned no longer says pending.         *)
C34_StatusEndToEnd ==
  \A id \in WorkIds \ (CopyIds \cup {0}) :
    (h_work[id].sent + h_work[id].dead_lettered >= 1 /\ ~h_work[id].store_fault) =>
      /\ id \in DOMAIN statusRec
      /\ statusRec[id] \in {"sent", "delivered", "failed"}

(* C35: when an admission call has returned its success response, the      *)
(* message it published is on its queue and the status record of that      *)
(* message exists in the store.  (Status records do not expire in the      *)
(* model, and nothing consumes the queues on the admission path.)          *)
C35_SuccessImpliesRecords ==
  \A i \in Instances :
    (call[i].pc = "done" /\ call[i].result = "pending") =>
      /\ h_req[call[i].request_id].published >= 1
      /\ \A q \in QueueNames :
           \A k \in 1..Len(queues[q]) :
             queues[q][k].request_id = call[i].request_id
               => queues[q][k].notification_id \in DOMAIN statusRec

----------------------------------------------------------------------------
(* Properties of the deliveries, continued *)

InFlightOf(id) ==
  Cardinality({c \in Consumers : consumer[c].pc # "idle" /\ WorkId(consumer[c].body) = id})

C37_FailedImpliesDeadLetter ==
  \A id \in DOMAIN statusRec :
    statusRec[id] = "failed" => DeadLetters(id) # {}

----------------------------------------------------------------------------
(* Properties of the requeue handlers of process_email_notification *)

LiveOf(r) ==
  Cardinality({k \in 1..Len(queues["email.queue"]) :
                 queues["email.queue"][k].request_id = r})
  + Cardinality({c \in Consumers :
                   consumer[c].pc # "idle" /\ consumer[c].body.request_id = r})

OutcomesOf(id) ==
  h_work[id].sent + h_work[id].skipped + h_work[id].dead_lettered
  + h_work[RequestOf(id)].sent + h_work[RequestOf(id)].skipped
  + h_work[RequestOf(id)].dead_lettered

(* C38: an admitted message that has not been sent, skipped or             *)
(* dead-lettered is on the channel queue or unacknowledged at the worker,  *)
(* itself or as a republished copy; the copy is on the queue when the      *)
(* original is acknowledged; and a delivery whose republish raised is      *)
(* rejected with requeue, not acknowledged.                                *)
C38_RequeueKeepsMessage ==
  /\ [](\A id \in WorkIds \ (CopyIds \cup {0}) :
          (h_work[id].published >= 1 /\ OutcomesOf(id) = 0) => LiveOf(RequestOf(id)) >= 1)
  /\ [][LET c == "email_service"
            body == consumer[c].body
        IN /\ (consumer[c].pc = "ack" /\ consumer'[c].pc # "ack") =>
                /\ \E k \in 1..Len(queues["email.queue"]) :
                     queues["email.queue"][k] = model_dump(body)
                /\ h_work'[WorkId(body)].acks = h_work[WorkId(body)].acks + 1
           /\ (consumer[c].pc # "idle"
               /\ h_work'[WorkId(body)].requeues = h_work[WorkId(body)].requeues + 1) =>
                /\ h_work'[WorkId(body)].acks = h_work[WorkId(body)].acks
                /\ Head(queues'["email.queue"]) = body]_vars

C38_Witness ==
  LET c == "email_service"
  IN /\ consumer[c].pc = "ack"
     /\ h_work[WorkId(consumer[c].body)].circuit_open >= 1
     /\ \E k \in 1..Len(queues["email.queue"]) :
          queues["email.queue"][k] = model_dump(consumer[c].body)
     /\ \E id \in WorkIds : h_work[id].requeues >= 1

(* C39: a breaker that is OPEN or HALF_OPEN has counted at least           *)
(* failure_threshold failures and has a last failure time, which is not in *)
(* the future; so a failure counted in HALF_OPEN re-opens the breaker.     *)
C39_OpenHasThresholdAndDeadline ==
  /\ [](\A b \in BreakerIds :
          breaker[b].state \in {"open", "half_open"} =>
             /\ breaker[b].failure_count >= failure_threshold
             /\ breaker[b].last_failure_time # NoTime
             /\ breaker[b].last_failure_time <= now)
  /\ [][\A b \in BreakerIds :
          (breaker[b].state = "half_open"
           /\ breaker'[b].failure_count = breaker[b].failure_count + 1) =>
             /\ breaker'[b].state = "open"
             /\ breaker'[b].last_failure_time = now]_vars

C39_Witness ==
  /\ breaker[SmtpBreaker].state = "open"
  /\ breaker[SmtpBreaker].failure_count = failure_threshold + 1
  /\ breaker[SmtpBreaker].last_failure_time = now
  /\ now >= recovery_timeout
  /\ h_cb[SmtpBreaker].last = "raised"
  /\ h_cb[SmtpBreaker].entered = "half_open"

----------------------------------------------------------------------------
(* The email service of SpecProcess over time.  Messages may keep          *)
(* arriving, the clock runs up to RecoveryHorizon, and the SMTP provider   *)
(* can fail only as long as a breaker opened by the failure still reaches  *)
(* its recovery deadline before the horizon: from some point on every      *)
(* attempt succeeds.  The steps of the requeue loop keep no tallies, so    *)
(* that the loop can turn any number of times.                             *)

(* api_gateway/main.py lines 168-186: the gateway publishes a message of   *)
(* the email channel.  The identity k is taken again for a new message     *)
(* once the earlier message that had it has left the queue and the worker. *)
Arrive(k) ==
  LET nid == NotificationIdBase + k
      r == 2 * k - 1
  IN /\ LiveOf(r) = 0
     /\ statusRec' = status_set(TRUE, nid, "pending")
     /\ queues' = publish_message(TypeOf(r), QueueMessage(r, nid))
     /\ h_work' = [h_work EXCEPT ![nid] = [NoWork EXCEPT !.published = 1],
                                 ![r] = NoWork]
     /\ UNCHANGED <<marker, rate, breaker, now, call, uuidCount, histVars, send,
                    consumer, h_send>>

(* basic_consume, rabbitmq_client.py lines 106-114, as in Deliver. *)
RecoverDeliver ==
  LET c == "email_service"
  IN /\ broker_may_deliver(c)
     /\ queues[ConsumedQueue(c)] # <<>>
     /\ queues' = [queues EXCEPT ![ConsumedQueue(c)] = Tail(@)]
     /\ consumer' = IF consumer[c].pc = "idle"
                    THEN [consumer EXCEPT ![c].pc = "callback",
                                          ![c].body = Head(queues[ConsumedQueue(c)])]
                    ELSE [consumer EXCEPT
                            ![c].buffer = Append(@, Head(queues[ConsumedQueue(c)]))]
     /\ UNCHANGED <<storeVars, breaker, now, call, uuidCount, histVars, send, h_send,
                    h_work>>

(* The handler of lines 212-218, as in ProcessRequeue: send_email_smtp     *)
(* raised CircuitBreakerOpenException.                                     *)
RecoverRequeue(ok) ==
  LET c == "email_service"
      body == consumer[c].body
      id == WorkId(body)
      copy == model_dump(body)
  IN /\ consumer[c].pc = "sending"
     /\ send.pc = "done"
     /\ send.result = "CircuitBreakerOpenException"
     /\ IF publish_raises(ok)
        THEN /\ queues' = basic_nack(body, TRUE)
             /\ consumer' = Released(c)
             /\ h_work' = [h_work EXCEPT ![id].requeues = 1, ![id].circuit_open = 1]
        ELSE /\ queues' = IF ok THEN publish_message("email", copy) ELSE queues
             /\ consumer' = [consumer EXCEPT ![c].pc = "ack"]
             /\ h_work' = [h_work EXCEPT ![id].republished = 1,
                                         ![id].circuit_open = 1,
                                         ![WorkId(copy)].published = 1]
     /\ send' = IdleSend
     /\ UNCHANGED <<storeVars, breaker, now, call, uuidCount, histVars, h_send>>

(* Line 264, as in ProcessAck. *)
RecoverAck ==
  LET c == "email_service"
  IN /\ consumer[c].pc = "ack"
     /\ consumer' = Released(c)
     /\ UNCHANGED <<storeVars, queues, breaker, now, call, uuidCount, histVars, send,
                    h_send, h_work>>

(* Time passes. *)
Wait ==
  /\ now < RecoveryHorizon
  /\ now' = now + 1
  /\ UNCHANGED deliveryVars
  /\ UNCHANGED <<storeVars, queues, breaker, call, uuidCount, histVars>>

(* The provider can still fail at the end of the step. *)
ProviderDown == now' + recovery_timeout <= RecoveryHorizon

(* From this time on the provider does not fail. *)
ProviderRecovered == now + recovery_timeout > RecoveryHorizon

(* The steps of the broker and of the consumer thread *)
RecoveryWork ==
  \/ RecoverDeliver
  \/ \E prefs \in {"none", "enabled"} : ProcessStart(TRUE, prefs, TRUE)
  \/ SendEnter
  \/ \E outcome \in SendOutcomes :
        SendAttempt(outcome) /\ (outcome # "ok" => ProviderDown)
  \/ \E ok \in BOOLEAN : ProcessSent(ok)
  \/ \E ok \in BOOLEAN : RecoverRequeue(ok)
  \/ RecoverAck
  \/ \E ok_store \in BOOLEAN : ProcessDeadLetter(TRUE, ok_store)

NextRecovery ==
  \/ \E k \in 1..RecoveryMessages : Arrive(k)
  \/ RecoveryWork
  \/ Wait

(* The clock advances; the broker delivers a queued message to a consumer  *)
(* that may take one, and the consumer thread (start_consuming,            *)
(* rabbitmq_client.py line 114) goes on with its callback.                 *)
SpecRecovery ==
  Init /\ [][NextRecovery]_vars /\ WF_vars(Wait) /\ WF_vars(RecoveryWork)

(* The identities of the messages that arrive and of their copies *)
RecoveryIds == UNION {{NotificationIdBase + k, 2 * k - 1} : k \in 1..RecoveryMessages}

====
